---------------------------- MODULE Spec2Model ----------------------------
(***************************************************************************)
(* A model of the Cyberflake identifier generator (src/src/index.js).      *)
(*                                                                         *)
(* A generator instance is a record holding the private fields of the      *)
(* class.  generate() and decode() are translated statement by statement.  *)
(* The host clock, process.hrtime.bigint(), is an input: every clock read  *)
(* draws a reading from Times.  BigInt values are TLA+ integers; the       *)
(* values the model produces stay below 2^31.                              *)
(***************************************************************************)
EXTENDS Integers, Sequences, FiniteSets, TLC

VARIABLES
    flake,      \* instance -> its private fields (#epoch ... #datacenterId)
    call,       \* instance -> where its generate() call stands: idle, or spinning
                \* in #waitNextMillis (with the reading it took at line 112)
    clock,      \* the most recent reading returned by process.hrtime.bigint()
    regressed,  \* some clock reading was smaller than the reading before it
    log,        \* instance -> the generate() calls that have returned, in order
    ret         \* what the most recent generate()/decode() call returned or threw

vars == <<flake, call, clock, regressed, log, ret>>

---------------------------------------------------------------------------
(* Bounds of the model.                                                    *)

\* Clock readings range over 0..MaxTime.
MaxTime == 2
\* The generate() calls made in one behaviour, over all instances.
MaxCalls == 3

Times == 0..MaxTime

---------------------------------------------------------------------------
(* Program constants.                                                      *)

DefaultMaxSequenceId == 4095
DefaultMaxWorkerId == 31
DefaultMaxDatacenterId == 31
DefaultWorkerId == 0
DefaultDatacenterId == 0
\* this.#lastTimestamp = -1n
NoTimestamp == -1
\* The shift distances of generate() and decode().
TimestampShift == 22
DatacenterShift == 17
WorkerShift == 12
\* A Number carries 53 significant bits.
MantissaBits == 53

---------------------------------------------------------------------------
(* BigInt arithmetic: two's complement of unbounded width.                 *)

RECURSIVE Pow2(_)
Pow2(n) == IF n = 0 THEN 1 ELSE 2 * Pow2(n - 1)

\* x << n
ShiftLeft(x, n) == x * Pow2(n)

\* x >> n : arithmetic shift, rounding toward minus infinity
ShiftRight(x, n) == x \div Pow2(n)

\* x & y
RECURSIVE BitAnd(_, _)
BitAnd(x, y) ==
    IF x = 0 \/ y = 0 THEN 0
    ELSE IF x = -1 THEN y
    ELSE IF y = -1 THEN x
    ELSE (x % 2) * (y % 2) + 2 * BitAnd(x \div 2, y \div 2)

\* x | y
RECURSIVE BitOr(_, _)
BitOr(x, y) ==
    IF x = 0 THEN y
    ELSE IF y = 0 THEN x
    ELSE IF x = -1 \/ y = -1 THEN -1
    ELSE (IF x % 2 = 1 \/ y % 2 = 1 THEN 1 ELSE 0) + 2 * BitOr(x \div 2, y \div 2)

Abs(x) == IF x < 0 THEN -x ELSE x

RECURSIVE BitLength(_)
BitLength(m) == IF m = 0 THEN 0 ELSE 1 + BitLength(m \div 2)

\* Number(bigint): the nearest double, ties to even.
Number(x) ==
    LET len == BitLength(Abs(x))
    IN  IF len <= MantissaBits THEN x
        ELSE LET unit == Pow2(len - MantissaBits)
                 q    == Abs(x) \div unit
                 r    == Abs(x) % unit
                 up   == 2 * r > unit \/ (2 * r = unit /\ q % 2 = 1)
                 m    == (IF up THEN q + 1 ELSE q) * unit
             IN  IF x < 0 THEN -m ELSE m

---------------------------------------------------------------------------
(* Strings are sequences of one-character strings.                         *)

DigitChars == <<"0", "1", "2", "3", "4", "5", "6", "7", "8", "9">>

IsDigit(c) == \E d \in 1..10 : DigitChars[d] = c

DigitValue(c) == (CHOOSE d \in 1..10 : DigitChars[d] = c) - 1

RECURSIVE Digits(_)
Digits(n) ==
    IF n < 10 THEN <<DigitChars[n + 1]>>
    ELSE Append(Digits(n \div 10), DigitChars[(n % 10) + 1])

\* BigInt.prototype.toString(): decimal, "-" before a negative value.
toString(x) == IF x < 0 THEN <<"-">> \o Digits(-x) ELSE Digits(x)

RECURSIVE TrimLeft(_)
TrimLeft(s) == IF s # <<>> /\ Head(s) = " " THEN TrimLeft(Tail(s)) ELSE s

RECURSIVE TrimRight(_)
TrimRight(s) ==
    IF s # <<>> /\ s[Len(s)] = " " THEN TrimRight(SubSeq(s, 1, Len(s) - 1)) ELSE s

RECURSIVE DigitsValue(_)
DigitsValue(s) ==
    IF s = <<>> THEN 0
    ELSE 10 * DigitsValue(SubSeq(s, 1, Len(s) - 1)) + DigitValue(s[Len(s)])

AllDigits(s) == s # <<>> /\ \A k \in 1..Len(s) : IsDigit(s[k])

---------------------------------------------------------------------------
(* JavaScript values handed to decode(), and results.                      *)

StringValue(s) == [type |-> "string", s |-> s]
IntegerNumber(n) == [type |-> "number", integral |-> TRUE, n |-> n]
FractionNumber == [type |-> "number", integral |-> FALSE]
NullValue == [type |-> "null"]
UndefinedValue == [type |-> "undefined"]

Returned(v) == [ok |-> TRUE, value |-> v]
Thrown(kind) == [ok |-> FALSE, error |-> kind]

\* BigInt(value): a string is trimmed and read as an optionally signed decimal
\* integer, the empty string as 0n; an integral number converts; a
\* non-integral number, null and undefined throw.
ToBigInt(v) ==
    CASE v.type = "string" ->
            LET t    == TrimRight(TrimLeft(v.s))
                sign == t # <<>> /\ Head(t) \in {"-", "+"}
                body == IF sign THEN Tail(t) ELSE t
            IN  IF t = <<>> THEN Returned(0)
                ELSE IF AllDigits(body)
                     THEN Returned(IF Head(t) = "-" THEN -DigitsValue(body)
                                   ELSE DigitsValue(body))
                     ELSE Thrown("SyntaxError")
      [] v.type = "number" ->
            IF v.integral THEN Returned(v.n) ELSE Thrown("RangeError")
      [] OTHER -> Thrown("TypeError")

---------------------------------------------------------------------------
(* The class.                                                              *)

Option(options, name, default) ==
    IF name \in DOMAIN options THEN options[name] ELSE default

\* constructor(options).  The model gives every instance an explicit epoch:
\* the default, 1672531200000n, is wider than the integers of the model.
Cyberflake(options) ==
    [ epoch           |-> options.epoch,
      maxSequenceId   |-> Option(options, "maxSequenceId", DefaultMaxSequenceId),
      maxWorkerId     |-> Option(options, "maxWorkerId", DefaultMaxWorkerId),
      maxDatacenterId |-> Option(options, "maxDatacenterId", DefaultMaxDatacenterId),
      lastTimestamp   |-> NoTimestamp,
      sequenceId      |-> 0,
      workerId        |-> Option(options, "workerId", DefaultWorkerId),
      datacenterId    |-> Option(options, "datacenterId", DefaultDatacenterId) ]

\* BigInt(process.hrtime.bigint()) - this.#epoch
Timestamp(self, reading) == reading - self.epoch

\* timestamp === this.#lastTimestamp
SameMillisecond(self, timestamp) == timestamp = self.lastTimestamp

\* The increment without the mask.
NextSequenceIdUnmasked(self) == self.sequenceId + 1

\* (this.#sequenceId + 1n) & this.#maxSequenceId
NextSequenceId(self) == BitAnd(self.sequenceId + 1, self.maxSequenceId)

\* The while condition with < in place of <=.
MustWaitBelow(self, timestamp) == timestamp < self.lastTimestamp

\* The while condition of #waitNextMillis.
MustWait(self, timestamp) == timestamp <= self.lastTimestamp

\* Compose with the datacenter shifted by the worker's distance.
ComposeSameShift(self, timestamp) ==
    BitOr(BitOr(BitOr(ShiftLeft(timestamp, TimestampShift),
                      ShiftLeft(self.datacenterId, WorkerShift)),
                ShiftLeft(self.workerId, WorkerShift)),
          self.sequenceId)

\* (timestamp << 22n) | (datacenterId << 17n) | (workerId << 12n) | sequenceId
Compose(self, timestamp) ==
    BitOr(BitOr(BitOr(ShiftLeft(timestamp, TimestampShift),
                      ShiftLeft(self.datacenterId, DatacenterShift)),
                ShiftLeft(self.workerId, WorkerShift)),
          self.sequenceId)

\* Lines 114-122 of generate(): the instance after the branch, and whether
\* the call goes on into #waitNextMillis.
Advance(self, timestamp) ==
    IF SameMillisecond(self, timestamp)
    THEN LET next == NextSequenceId(self)
         IN  [self |-> [self EXCEPT !.sequenceId = next], wait |-> next = 0]
    ELSE [self |-> [self EXCEPT !.sequenceId = 0], wait |-> FALSE]

\* Lines 124-128 of generate(): store the timestamp, compose, return the
\* decimal string.
Finish(self, timestamp) ==
    LET after == [self EXCEPT !.lastTimestamp = timestamp]
    IN  [self |-> after, value |-> StringValue(toString(Compose(after, timestamp)))]

DecodeSequenceId(self, id) == Number(BitAnd(id, self.maxSequenceId))
\* DecodeWorkerId without the mask.
DecodeWorkerIdUnmasked(self, id) == Number(ShiftRight(id, WorkerShift))

DecodeWorkerId(self, id) == Number(BitAnd(ShiftRight(id, WorkerShift), self.maxWorkerId))
\* DecodeDatacenterId without the mask.
DecodeDatacenterIdUnmasked(self, id) == Number(ShiftRight(id, DatacenterShift))

DecodeDatacenterId(self, id) ==
    Number(BitAnd(ShiftRight(id, DatacenterShift), self.maxDatacenterId))
DecodeTimestamp(self, id) == Number(ShiftRight(id, TimestampShift) + self.epoch)

\* decode() assigning the sequence field of the instance instead of a local.
decodeStoring(self, CyberflakeId) ==
    LET id == ToBigInt(CyberflakeId)
    IN  IF ~id.ok THEN [self |-> self, result |-> id]
        ELSE LET after == [self EXCEPT !.sequenceId = BitAnd(id.value, self.maxSequenceId)]
             IN  [self |-> after,
                  result |-> Returned([timestamp    |-> DecodeTimestamp(self, id.value),
                                       datacenterId |-> DecodeDatacenterId(self, id.value),
                                       workerId     |-> DecodeWorkerId(self, id.value),
                                       sequenceId   |-> Number(after.sequenceId)])]

\* decode(CyberflakeId): the instance after the call and what the call
\* returned or threw.
decode(self, CyberflakeId) ==
    LET id == ToBigInt(CyberflakeId)
    IN  IF ~id.ok THEN [self |-> self, result |-> id]
        ELSE [self |-> self,
              result |-> Returned([timestamp    |-> DecodeTimestamp(self, id.value),
                                   datacenterId |-> DecodeDatacenterId(self, id.value),
                                   workerId     |-> DecodeWorkerId(self, id.value),
                                   sequenceId   |-> DecodeSequenceId(self, id.value)])]

---------------------------------------------------------------------------
(* Configurations.  Field maxima are of the form 2^k - 1.                  *)

\* Epoch 0, and an epoch inside the range of the clock, so that timestamps
\* below, at and above 0 occur.
Epochs == {0, 1}

\* Default field maxima, coordinates in range.
DefaultMaximaOptions ==
    {[epoch |-> e] : e \in Epochs}
    \cup {[epoch |-> e, workerId |-> 5, datacenterId |-> 3] : e \in Epochs}
    \cup {[epoch |-> e, workerId |-> 31, datacenterId |-> 31] : e \in Epochs}

\* Fields narrower than the defaults.
NarrowOptions ==
    {[epoch |-> e, maxSequenceId |-> m, workerId |-> 5, datacenterId |-> 3] :
        e \in Epochs, m \in {0, 1}}
    \cup {[epoch |-> e, maxSequenceId |-> 3, maxWorkerId |-> 7, maxDatacenterId |-> 3,
           workerId |-> 7, datacenterId |-> 3] : e \in Epochs}

\* Worker and datacenter fields wider than the defaults, coordinates in range.
WideCoordinateOptions ==
    { [epoch |-> 0, maxWorkerId |-> 63, workerId |-> 32],
      [epoch |-> 0, maxDatacenterId |-> 63, datacenterId |-> 32] }

Options == DefaultMaximaOptions \cup NarrowOptions \cup WideCoordinateOptions

\* Pairs of in-range coordinates for two instances side by side.
Coordinates == {<<0, 0>>, <<5, 3>>, <<3, 5>>, <<31, 31>>}

Before(c, d) == c[1] < d[1] \/ (c[1] = d[1] /\ c[2] < d[2])

Malformed ==
    { StringValue(<<>>), StringValue(<<" ">>), StringValue(<<"a">>),
      FractionNumber, NullValue, UndefinedValue }

---------------------------------------------------------------------------
(* The state machine.                                                      *)

Instances == DOMAIN flake

Idle == [pc |-> "idle"]
Spinning(reading) == [pc |-> "spin", entry |-> reading]

RECURSIVE SumCalls(_)
SumCalls(S) ==
    IF S = {} THEN 0
    ELSE LET i == CHOOSE j \in S : TRUE IN Len(log[i]) + SumCalls(S \ {i})

Calls == SumCalls(Instances)

InitWith(instances) ==
    /\ flake = instances
    /\ call = [i \in DOMAIN instances |-> Idle]
    /\ clock = 0
    /\ regressed = FALSE
    /\ log = [i \in DOMAIN instances |-> <<>>]
    /\ ret = [op |-> "none"]

Init == \E o \in Options : InitWith([i \in {1} |-> Cyberflake(o)])

\* A clock read that returns `reading`.
Read(reading) ==
    /\ clock' = reading
    /\ regressed' = (regressed \/ reading < clock)

\* The call of instance i returns: lines 124-128.  The log records the
\* reading the call took on entry, the reading its timestamp comes from, the
\* fields as stored, whether it went through #waitNextMillis, and the string
\* returned.
Return(i, self, timestamp, first, reading, waited) ==
    LET f == Finish(self, timestamp)
    IN  /\ flake' = [flake EXCEPT ![i] = f.self]
        /\ call' = [call EXCEPT ![i] = Idle]
        /\ log' = [log EXCEPT ![i] = Append(@, [entry      |-> first,
                                                 used       |-> reading,
                                                 timestamp  |-> timestamp,
                                                 sequenceId |-> f.self.sequenceId,
                                                 waited     |-> waited,
                                                 id         |-> f.value.s])]
        /\ ret' = [op |-> "generate", instance |-> i, result |-> Returned(f.value)]

\* generate() up to its return, or up to the call of #waitNextMillis.
Generate(i, reading) ==
    /\ call[i].pc = "idle"
    /\ Read(reading)
    /\ LET timestamp == Timestamp(flake[i], reading)
           a == Advance(flake[i], timestamp)
       IN  IF a.wait
           THEN /\ flake' = [flake EXCEPT ![i] = a.self]
                /\ call' = [call EXCEPT ![i] = Spinning(reading)]
                /\ UNCHANGED <<log, ret>>
           ELSE Return(i, a.self, timestamp, reading, reading, FALSE)

\* One sample of the clock in #waitNextMillis (lines 164 and 167), and the
\* rest of generate() once the loop is left.
WaitNextMillis(i, reading) ==
    /\ call[i].pc = "spin"
    /\ Read(reading)
    /\ LET timestamp == Timestamp(flake[i], reading)
       IN  IF MustWait(flake[i], timestamp)
           THEN UNCHANGED <<flake, call, log, ret>>
           ELSE Return(i, flake[i], timestamp, call[i].entry, reading, TRUE)

\* decode(argument) on instance i.
Decode(i, argument) ==
    /\ call[i].pc = "idle"
    /\ LET d == decode(flake[i], argument)
       IN  /\ flake' = [flake EXCEPT ![i] = d.self]
           /\ ret' = [op |-> "decode", instance |-> i, argument |-> argument,
                      result |-> d.result]
    /\ UNCHANGED <<call, clock, regressed, log>>

DecodeArguments ==
    UNION {{StringValue(log[i][k].id) : k \in 1..Len(log[i])} : i \in Instances}
    \cup Malformed

GenerateStep ==
    /\ Calls < MaxCalls
    /\ \E i \in Instances, reading \in Times : Generate(i, reading)
SpinStep == \E i \in Instances, reading \in Times : WaitNextMillis(i, reading)
DecodeStep == \E i \in Instances, argument \in DecodeArguments : Decode(i, argument)

Next == GenerateStep \/ SpinStep \/ DecodeStep

Spec == Init /\ [][Next]_vars

(* Two instances with the same epoch, the same field maxima (the defaults, *)
(* or a one-bit sequence field, which two calls exhaust) and different     *)
(* coordinates, whose generate() calls interleave.                         *)
InitTwo ==
    \E e \in Epochs, m \in {DefaultMaxSequenceId, 1},
       c \in Coordinates, d \in Coordinates :
        /\ Before(c, d)
        /\ InitWith([i \in {1, 2} |->
                        Cyberflake([epoch |-> e,
                                    maxSequenceId |-> m,
                                    workerId |-> IF i = 1 THEN c[1] ELSE d[1],
                                    datacenterId |-> IF i = 1 THEN c[2] ELSE d[2]])])

NextTwo == GenerateStep \/ SpinStep

SpecTwo == InitTwo /\ [][NextTwo]_vars


---------------------------------------------------------------------------
(* Vocabulary of the properties.                                           *)

\* The integer a returned decimal string denotes.
Numeric(s) == ToBigInt(StringValue(s)).value

Ids(i) == {log[i][k].id : k \in 1..Len(log[i])}

DefaultMaxima(self) ==
    /\ self.maxSequenceId = DefaultMaxSequenceId
    /\ self.maxWorkerId = DefaultMaxWorkerId
    /\ self.maxDatacenterId = DefaultMaxDatacenterId

InRange(self) ==
    /\ self.workerId \in 0..self.maxWorkerId
    /\ self.datacenterId \in 0..self.maxDatacenterId

\* The most recent call was decode(), on instance i, of the identifier that
\* the k-th generate() call of i returned.
DecodedCall(i, k) ==
    /\ ret.op = "decode"
    /\ ret.instance = i
    /\ k \in 1..Len(log[i])
    /\ ret.argument = StringValue(log[i][k].id)

---------------------------------------------------------------------------
(* C1: Uniqueness.  While no clock reading was below the one before it,    *)
(* the identifiers that different generate() calls of one instance have    *)
(* returned are pairwise distinct, however many calls lie between them.    *)
Uniqueness ==
    ~regressed =>
        \A i \in Instances : \A j, k \in 1..Len(log[i]) :
            j < k => log[i][j].id # log[i][k].id

(* C2: Monotonicity.  While no clock reading was below the one before it,  *)
(* an identifier returned by an earlier call of an instance is numerically *)
(* at most the identifier returned by any later call.                      *)
Monotonicity ==
    ~regressed =>
        \A i \in Instances : \A j, k \in 1..Len(log[i]) :
            j < k => Numeric(log[i][j].id) <= Numeric(log[i][k].id)

(* C3: Round trip of the coordinates.  For every configuration with        *)
(* coordinates in range, decode() of an identifier that generate()         *)
(* returned on the same instance yields the configured workerId and        *)
(* datacenterId and a sequenceId within [0, maxSequenceId].                *)
RoundTrip ==
    \A i \in Instances : \A k \in 1..Len(log[i]) :
        (InRange(flake[i]) /\ DecodedCall(i, k)) =>
            /\ ret.result.ok
            /\ ret.result.value.workerId = flake[i].workerId
            /\ ret.result.value.datacenterId = flake[i].datacenterId
            /\ ret.result.value.sequenceId \in 0..flake[i].maxSequenceId

SequenceRollover ==
    \A i \in Instances :
        LET n == flake[i].maxSequenceId + 1
        IN  (/\ ~regressed
             /\ Len(log[i]) >= n
             /\ \A k \in 1..n : log[i][k].entry = log[i][1].entry) =>
                /\ \A k \in 1..n : log[i][k].sequenceId = k - 1
                /\ Len(log[i]) >= n + 1 =>
                      /\ log[i][n + 1].used > log[i][1].entry
                      /\ log[i][n + 1].timestamp > log[i][1].timestamp
                      /\ log[i][n + 1].sequenceId = 0

\* The configuration of an instance, as a fresh instance holds it.
Fresh(self) == [self EXCEPT !.lastTimestamp = NoTimestamp, !.sequenceId = 0]

\* What the calls of generate() alone have made of an idle instance.
AfterCalls(i) ==
    IF log[i] = <<>> THEN Fresh(flake[i])
    ELSE [Fresh(flake[i]) EXCEPT !.lastTimestamp = log[i][Len(log[i])].timestamp,
                                 !.sequenceId = log[i][Len(log[i])].sequenceId]

(* C6: decode() is pure.  A step that is a decode() call changes no field  *)
(* of any instance, no call in progress and no clock reading; an idle      *)
(* instance holds what its generate() calls alone left in it, whatever     *)
(* was decoded in between; and what decode() returned or threw is what a   *)
(* fresh instance of the same configuration yields for the same argument.  *)
DecodePure ==
    /\ [](\A i \in Instances : call[i].pc = "idle" => flake[i] = AfterCalls(i))
    /\ [](ret.op = "decode" =>
            ret.result = decode(Fresh(flake[ret.instance]), ret.argument).result)
    /\ [][(ret' # ret /\ ret'.op = "decode") =>
            (flake' = flake /\ call' = call /\ log' = log /\ clock' = clock)]_vars

\* An older identifier was decoded on an instance whose sequence counter has
\* moved on since.
DecodePureWitness ==
    \E i \in Instances : \E k \in 1..Len(log[i]) :
        /\ DecodedCall(i, k)
        /\ k < Len(log[i])
        /\ ret.result.ok
        /\ flake[i].sequenceId >= 1
        /\ ret.result.value.sequenceId # flake[i].sequenceId

(* C7: First identifier of a fresh instance.  For every configuration and  *)
(* clock reading the first generate() call computes a timestamp above the  *)
(* sentinel and takes the new-millisecond branch: it does not wait, its    *)
(* sequenceId is 0, and decode() of its identifier yields sequenceId 0     *)
(* with the configured workerId and datacenterId.                          *)
FirstIdentifier ==
    \A i \in Instances :
        Len(log[i]) >= 1 =>
            /\ log[i][1].timestamp > NoTimestamp
            /\ ~log[i][1].waited
            /\ log[i][1].sequenceId = 0
            /\ DecodedCall(i, 1) =>
                  /\ ret.result.ok
                  /\ ret.result.value.sequenceId = 0
                  /\ ret.result.value.workerId = flake[i].workerId
                  /\ ret.result.value.datacenterId = flake[i].datacenterId

(* C8: Unsigned identifier.  Every string generate() returns is the        *)
(* decimal form of a non-negative integer.                                 *)
UnsignedIdentifier ==
    \A i \in Instances : \A k \in 1..Len(log[i]) :
        /\ AllDigits(log[i][k].id)
        /\ Numeric(log[i][k].id) >= 0

SameEpochDefaultMaxima ==
    \A a, b \in Instances :
        /\ DefaultMaxima(flake[a]) /\ InRange(flake[a])
        /\ flake[a].epoch = flake[b].epoch

DistinctCoordinates ==
    \A a, b \in Instances :
        a # b => <<flake[a].workerId, flake[a].datacenterId>>
                    # <<flake[b].workerId, flake[b].datacenterId>>

(* C9: Cross-instance distinctness.  Instances with the default field      *)
(* maxima, the same epoch and different in-range coordinates never return  *)
(* equal identifiers, however their calls interleave and whatever the      *)
(* clock reads; and a step in which an instance neither advances its own   *)
(* call nor returns leaves the fields of that instance as they were.       *)
CrossInstance ==
    /\ []((SameEpochDefaultMaxima /\ DistinctCoordinates) =>
            \A a, b \in Instances : a # b => Ids(a) \cap Ids(b) = {})
    /\ [][\A i \in Instances :
            (call'[i] = call[i] /\ log'[i] = log[i]) => flake'[i] = flake[i]]_vars

\* Two instances have each returned an identifier with the same timestamp
\* and the same sequenceId.
CrossInstanceWitness ==
    \E a, b \in Instances :
        /\ a # b
        /\ SameEpochDefaultMaxima /\ DistinctCoordinates
        /\ \E j \in 1..Len(log[a]), k \in 1..Len(log[b]) :
              /\ log[a][j].timestamp = log[b][k].timestamp
              /\ log[a][j].sequenceId = log[b][k].sequenceId

(* C10: decode() rejects bad input.  A decode() call on the empty string,  *)
(* a blank string, non-digit text, a non-integral number, null or          *)
(* undefined throws an error of the DecodeError kind and returns no field  *)
(* record.                                                                 *)
DecodeRejects ==
    (ret.op = "decode" /\ ret.argument \in Malformed) =>
        /\ ~ret.result.ok
        /\ ret.result.error = "DecodeError"

---------------------------------------------------------------------------
\* The width of a field whose greatest value is max = 2^bits - 1.
FieldBits(max) == BitLength(max)

SequenceBits(self) == FieldBits(self.maxSequenceId)
WorkerBits(self) == FieldBits(self.maxWorkerId)
DatacenterBits(self) == FieldBits(self.maxDatacenterId)

\* The identifier laid out by the configured widths.
ComposeByWidths(self, timestamp, sequenceId) ==
    BitOr(BitOr(BitOr(ShiftLeft(timestamp,
                                WorkerBits(self) + DatacenterBits(self)
                                    + SequenceBits(self)),
                      ShiftLeft(self.datacenterId,
                                WorkerBits(self) + SequenceBits(self))),
                ShiftLeft(self.workerId, SequenceBits(self))),
          sequenceId)

\* The fields taken out of an identifier by the configured widths.
DecodeByWidths(self, id) ==
    [timestamp    |-> Number(ShiftRight(id, WorkerBits(self) + DatacenterBits(self)
                                                + SequenceBits(self)) + self.epoch),
     datacenterId |-> Number(BitAnd(ShiftRight(id, WorkerBits(self) + SequenceBits(self)),
                                    self.maxDatacenterId)),
     workerId     |-> Number(BitAnd(ShiftRight(id, SequenceBits(self)),
                                    self.maxWorkerId)),
     sequenceId   |-> Number(BitAnd(id, self.maxSequenceId))]

(* C11: Bit layout by the configured widths.  Every identifier generate()  *)
(* returned is the timestamp shifted left by the three field widths        *)
(* together, or-ed with the datacenterId shifted by the worker and         *)
(* sequence widths, the workerId shifted by the sequence width, and the    *)
(* sequenceId; and decode() of it returns the fields taken out with the    *)
(* same width-derived shifts.                                              *)
WidthLayout ==
    \A i \in Instances : \A k \in 1..Len(log[i]) :
        /\ Numeric(log[i][k].id) =
              ComposeByWidths(flake[i], log[i][k].timestamp, log[i][k].sequenceId)
        /\ DecodedCall(i, k) =>
              /\ ret.result.ok
              /\ ret.result.value = DecodeByWidths(flake[i], Numeric(log[i][k].id))

---------------------------------------------------------------------------
(* One instance whose sequence maximum is any value from 0 up, whether or  *)
(* not it is one less than a power of two: the constructor takes it as it  *)
(* is given.  The epoch is 0, so that no timestamp is below 0.             *)
AnyMaxSequenceIds == 0..6

InitAnyMaximum ==
    \E m \in AnyMaxSequenceIds :
        InitWith([i \in {1} |-> Cyberflake([epoch |-> 0, maxSequenceId |-> m])])

SpecAnyMaximum == InitAnyMaximum /\ [][Next]_vars

\* The fields the k-th generate() call of instance i found on entry.
PreviousTimestamp(i, k) == IF k = 1 THEN NoTimestamp ELSE log[i][k - 1].timestamp
PreviousSequenceId(i, k) == IF k = 1 THEN 0 ELSE log[i][k - 1].sequenceId

\* The k-th call of instance i took the same-millisecond branch.
TookSameMillisecond(i, k) ==
    Timestamp(flake[i], log[i][k].entry) = PreviousTimestamp(i, k)

\* The sequence values of the calls of i that returned with this timestamp.
SequenceIdsUsed(i, timestamp) ==
    {log[i][k].sequenceId : k \in {j \in 1..Len(log[i]) : log[i][j].timestamp = timestamp}}

(* C12: Modular increment.  The value a same-millisecond call assigns to   *)
(* sequenceId is (sequenceId + 1) mod (maxSequenceId + 1), for every       *)
(* maxSequenceId >= 0 and every sequenceId in [0, maxSequenceId]; and a    *)
(* call is in, or has gone through, the spin-wait only when the calls      *)
(* before it have used every value of 0..maxSequenceId with the timestamp  *)
(* it first read.                                                          *)
ModularIncrement ==
    \A i \in Instances :
        LET modulus == flake[i].maxSequenceId + 1
            n == Len(log[i])
        IN  /\ \A k \in 1..n :
                  TookSameMillisecond(i, k) =>
                      (IF log[i][k].waited THEN 0 ELSE log[i][k].sequenceId)
                          = (PreviousSequenceId(i, k) + 1) % modulus
            /\ \A k \in 1..n :
                  log[i][k].waited =>
                      {log[i][j].sequenceId :
                          j \in {h \in 1..(k - 1) :
                                    log[i][h].timestamp
                                        = Timestamp(flake[i], log[i][k].entry)}}
                          = 0..flake[i].maxSequenceId
            /\ call[i].pc = "spin" =>
                  /\ flake[i].sequenceId = (PreviousSequenceId(i, n + 1) + 1) % modulus
                  /\ SequenceIdsUsed(i, Timestamp(flake[i], call[i].entry))
                        = 0..flake[i].maxSequenceId

(* C13: Sequence counter invariant.  The sequenceId of an instance, and of *)
(* every call that has returned, is within [0, maxSequenceId].  A call     *)
(* whose timestamp differs from the lastTimestamp it found returns without *)
(* waiting with sequenceId 0.  A call whose timestamp equals the           *)
(* lastTimestamp it found and that does not wrap returns with that same    *)
(* timestamp and with the sequenceId it found plus exactly 1.              *)
SequenceCounter ==
    \A i \in Instances :
        /\ flake[i].sequenceId \in 0..flake[i].maxSequenceId
        /\ \A k \in 1..Len(log[i]) :
              /\ log[i][k].sequenceId \in 0..flake[i].maxSequenceId
              /\ ~TookSameMillisecond(i, k) =>
                    /\ log[i][k].sequenceId = 0
                    /\ ~log[i][k].waited
                    /\ log[i][k].timestamp = Timestamp(flake[i], log[i][k].entry)
              /\ (TookSameMillisecond(i, k) /\ ~log[i][k].waited) =>
                    /\ log[i][k].timestamp = PreviousTimestamp(i, k)
                    /\ log[i][k].sequenceId = PreviousSequenceId(i, k) + 1
        /\ call[i].pc = "idle" =>
              flake[i].sequenceId = AfterCalls(i).sequenceId

\* A same-millisecond call raised the counter from 0 to 1 without wrapping,
\* on an instance that has more sequence values left, and the call after it
\* came with another timestamp and reset the counter.
SequenceCounterWitness ==
    \E i \in Instances : \E k \in 2..Len(log[i]) :
        /\ TookSameMillisecond(i, k)
        /\ ~log[i][k].waited
        /\ log[i][k].sequenceId = 1
        /\ flake[i].maxSequenceId > 1
        /\ k < Len(log[i])
        /\ ~TookSameMillisecond(i, k + 1)
        /\ flake[i].sequenceId = 0

---------------------------------------------------------------------------
(* One instance whose clock eventually advances: while a call spins and   *)
(* the clock has a reading past lastTimestamp, the busy loop is eventually *)
(* handed one and is left.                                                 *)

\* The clock has a reading past the lastTimestamp of instance i.
ClockCanAdvance(i) ==
    \E reading \in Times : ~MustWait(flake[i], Timestamp(flake[i], reading))

\* The step of WaitNextMillis in which the loop of instance i is left.
LeaveLoop(i) ==
    /\ call[i].pc = "spin"
    /\ ClockCanAdvance(i)
    /\ call' = [call EXCEPT ![i] = Idle]

AdvanceStep == \E i \in Instances : LeaveLoop(i)

SpecFair == Init /\ [][NextTwo]_vars /\ WF_call(AdvanceStep)

\* The k-th call of instance i wrapped the sequence.
Wrapped(i, k) ==
    /\ TookSameMillisecond(i, k)
    /\ BitAnd(PreviousSequenceId(i, k) + 1, flake[i].maxSequenceId) = 0

(* C14: Spin-wait termination.  A call is in the spin-wait only when it    *)
(* wrapped the sequence, so a call that does not wrap returns without      *)
(* waiting.  A waiting call returns in the step that samples a timestamp   *)
(* strictly greater than lastTimestamp and in no other step: a sample at   *)
(* or below lastTimestamp leaves it waiting, with no timeout.  When the    *)
(* clock eventually hands the loop a reading past lastTimestamp, the call  *)
(* eventually returns; when the clock has no reading past lastTimestamp,   *)
(* the call waits forever.                                                 *)
SpinWaitTermination ==
    /\ [](\A i \in Instances :
            /\ \A k \in 1..Len(log[i]) :
                  /\ log[i][k].waited <=> Wrapped(i, k)
                  /\ log[i][k].waited =>
                        /\ log[i][k].timestamp > PreviousTimestamp(i, k)
                        /\ log[i][k].timestamp = Timestamp(flake[i], log[i][k].used)
            /\ call[i].pc = "spin" =>
                  /\ Timestamp(flake[i], call[i].entry) = flake[i].lastTimestamp
                  /\ flake[i].sequenceId = 0)
    /\ [][\A i \in Instances :
            call[i].pc = "spin" =>
                /\ call'[i].pc = "idle" <=>
                      Timestamp(flake[i], clock') > flake[i].lastTimestamp
                /\ call'[i].pc = "idle" =>
                      /\ Len(log'[i]) = Len(log[i]) + 1
                      /\ flake'[i].lastTimestamp = Timestamp(flake[i], clock')
                /\ call'[i].pc = "spin" => (flake'[i] = flake[i] /\ log'[i] = log[i])]_vars
    /\ \A i \in {1} :
          /\ (call[i].pc = "spin" /\ ClockCanAdvance(i)) ~> call[i].pc = "idle"
          /\ []((call[i].pc = "spin" /\ ~ClockCanAdvance(i)) => [](call[i].pc = "spin"))

\* A call that wrapped the sequence came back from the spin-wait with a
\* reading above the one it took on entry, after the clock had gone back.
SpinWaitTerminationWitness ==
    \E i \in Instances : \E k \in 2..Len(log[i]) :
        /\ log[i][k].waited
        /\ log[i][k].used > log[i][k].entry
        /\ log[i][k].timestamp > log[i][k - 1].timestamp
        /\ regressed

---------------------------------------------------------------------------
\* The k-th call of instance i read a timestamp below the lastTimestamp it
\* found.
ReadBackward(i, k) ==
    Timestamp(flake[i], log[i][k].entry) < PreviousTimestamp(i, k)

(* C15: Backward clock step.  A generate() call that reads a timestamp     *)
(* strictly less than lastTimestamp returns without waiting, with          *)
(* sequenceId 0 and with the smaller timestamp, which is the lastTimestamp *)
(* the next call finds; and the identifier it returns is numerically less  *)
(* than one an earlier call returned.                                      *)
BackwardStep ==
    \A i \in Instances : \A k \in 1..Len(log[i]) :
        ReadBackward(i, k) =>
            /\ ~log[i][k].waited
            /\ log[i][k].sequenceId = 0
            /\ log[i][k].timestamp = Timestamp(flake[i], log[i][k].entry)
            /\ log[i][k].timestamp < PreviousTimestamp(i, k)
            /\ (k = Len(log[i]) /\ call[i].pc = "idle") =>
                  flake[i].lastTimestamp = log[i][k].timestamp
            /\ \E j \in 1..(k - 1) : Numeric(log[i][k].id) < Numeric(log[i][j].id)

---------------------------------------------------------------------------
(* One instance whose fields are at most as wide as the shifts of          *)
(* generate() allow, with coordinates in range: the configurations in      *)
(* which no field reaches into another.                                    *)
DisjointFieldOptions ==
    {o \in Options :
        /\ Cyberflake(o).maxSequenceId <= DefaultMaxSequenceId
        /\ Cyberflake(o).maxWorkerId <= DefaultMaxWorkerId
        /\ Cyberflake(o).maxDatacenterId <= DefaultMaxDatacenterId}

InitDisjointFields ==
    \E o \in DisjointFieldOptions : InitWith([i \in {1} |-> Cyberflake(o)])

SpecDisjointFields == InitDisjointFields /\ [][Next]_vars

(* C16: Uniqueness whatever the clock reads.  The identifiers that         *)
(* different generate() calls of one instance have returned are pairwise   *)
(* distinct, for every sequence of clock readings: readings below the one  *)
(* before, and readings that come back to an earlier value, included.      *)
UniquenessAnyClock ==
    \A i \in Instances : \A j, k \in 1..Len(log[i]) :
        j < k => log[i][j].id # log[i][k].id

---------------------------------------------------------------------------
(* Two threads calling generate() on one instance.  A call is a sequence   *)
(* of steps, one per access to the fields: the clock read (line 112), the  *)
(* compare with lastTimestamp (line 114), the sequence update (lines 115   *)
(* to 122, with the loop of #waitNextMillis after a wrap), the store of    *)
(* lastTimestamp (line 124) and the compose (lines 126 to 128).  Here      *)
(* call maps a thread to where its call stands and to the locals of the    *)
(* call.  With the mutex a call starts only when no other call is under    *)
(* way, so every call runs from its clock read to its return alone.        *)

Threads == {1, 2}

ThreadOptions ==
    { [epoch |-> 0],
      [epoch |-> 0, maxSequenceId |-> 1],
      [epoch |-> 0, maxDatacenterId |-> 63, datacenterId |-> 32] }

InitThreads ==
    \E o \in ThreadOptions, mutex \in BOOLEAN :
        /\ flake = [i \in {1} |-> Cyberflake(o)]
        /\ call = [t \in Threads |-> [pc |-> "idle", mutex |-> mutex]]
        /\ clock = 0
        /\ regressed = FALSE
        /\ log = [i \in {1} |-> <<>>]
        /\ ret = [op |-> "none"]

\* The calls that have started: those returned and those under way.
Started == Calls + Cardinality({t \in Threads : call[t].pc # "idle"})

\* Line 112.
ThreadRead(t, reading) ==
    /\ call[t].pc = "idle"
    /\ call[t].mutex => \A u \in Threads : call[u].pc = "idle"
    /\ Started < MaxCalls
    /\ Read(reading)
    /\ call' = [call EXCEPT ![t] = [pc        |-> "compare",
                                    mutex     |-> call[t].mutex,
                                    entry     |-> reading,
                                    used      |-> reading,
                                    timestamp |-> Timestamp(flake[1], reading),
                                    waited    |-> FALSE]]
    /\ UNCHANGED <<flake, log, ret>>

\* Line 114.
ThreadCompare(t) ==
    /\ call[t].pc = "compare"
    /\ call' = [call EXCEPT ![t] =
                    [pc        |-> IF SameMillisecond(flake[1], call[t].timestamp)
                                   THEN "increment" ELSE "reset",
                     mutex     |-> call[t].mutex,
                     entry     |-> call[t].entry,
                     used      |-> call[t].used,
                     timestamp |-> call[t].timestamp,
                     waited    |-> FALSE]]
    /\ UNCHANGED <<flake, clock, regressed, log, ret>>

\* Lines 115-119, or line 121.
ThreadUpdate(t) ==
    /\ call[t].pc \in {"increment", "reset"}
    /\ LET next == IF call[t].pc = "increment" THEN NextSequenceId(flake[1]) ELSE 0
           wait == call[t].pc = "increment" /\ next = 0
       IN  /\ flake' = [flake EXCEPT ![1].sequenceId = next]
           /\ call' = [call EXCEPT ![t].pc = IF wait THEN "spin" ELSE "store",
                                   ![t].waited = wait]
    /\ UNCHANGED <<clock, regressed, log, ret>>

\* One sample of the loop of #waitNextMillis.
ThreadSpin(t, reading) ==
    /\ call[t].pc = "spin"
    /\ Read(reading)
    /\ IF MustWait(flake[1], Timestamp(flake[1], reading))
       THEN UNCHANGED call
       ELSE call' = [call EXCEPT ![t].pc = "store",
                                 ![t].used = reading,
                                 ![t].timestamp = Timestamp(flake[1], reading)]
    /\ UNCHANGED <<flake, log, ret>>

\* Line 124.
ThreadStore(t) ==
    /\ call[t].pc = "store"
    /\ flake' = [flake EXCEPT ![1].lastTimestamp = call[t].timestamp]
    /\ call' = [call EXCEPT ![t].pc = "compose"]
    /\ UNCHANGED <<clock, regressed, log, ret>>

\* Lines 126-128.
ThreadCompose(t) ==
    /\ call[t].pc = "compose"
    /\ LET value == StringValue(toString(Compose(flake[1], call[t].timestamp)))
       IN  /\ log' = [log EXCEPT ![1] = Append(@, [entry      |-> call[t].entry,
                                                    used       |-> call[t].used,
                                                    timestamp  |-> call[t].timestamp,
                                                    sequenceId |-> flake[1].sequenceId,
                                                    waited     |-> call[t].waited,
                                                    id         |-> value.s])]
           /\ ret' = [op |-> "generate", instance |-> 1, result |-> Returned(value)]
    /\ call' = [call EXCEPT ![t] = [pc |-> "idle", mutex |-> call[t].mutex]]
    /\ UNCHANGED <<flake, clock, regressed>>

ReadStep == \E t \in Threads, reading \in Times : ThreadRead(t, reading)
CompareStep == \E t \in Threads : ThreadCompare(t)
UpdateStep == \E t \in Threads : ThreadUpdate(t)
LoopStep == \E t \in Threads, reading \in Times : ThreadSpin(t, reading)
StoreStep == \E t \in Threads : ThreadStore(t)
ComposeStep == \E t \in Threads : ThreadCompose(t)

NextThreads ==
    ReadStep \/ CompareStep \/ UpdateStep \/ LoopStep \/ StoreStep \/ ComposeStep

SpecThreads == InitThreads /\ [][NextThreads]_vars

Mutex == \A t \in Threads : call[t].mutex

\* Two calls have returned the same identifier.
Duplicate == \E j, k \in 1..Len(log[1]) : j < k /\ log[1][j].id = log[1][k].id

\* Without the mutex, while no clock reading was below the one before it,
\* two calls of the default configuration have returned the same identifier.
InterleavedDuplicate ==
    /\ ~Mutex
    /\ ~regressed
    /\ DefaultMaxima(flake[1])
    /\ Duplicate

(* C17: generate() under mutual exclusion.  When every generate() call on  *)
(* the instance runs from its clock read to its return with no step of     *)
(* another call in between, then, while no clock reading was below the one *)
(* before it, no two calls have returned the same identifier; without the  *)
(* mutual exclusion such a state is reachable (InterleavedDuplicate).      *)
MutexUniqueness == (Mutex /\ ~regressed) => ~Duplicate

---------------------------------------------------------------------------
(* Two instances with the same epoch and field maxima, each holding a      *)
(* coordinate above its maximum or a coordinate pair that the overflow of  *)
(* the other reaches: the constructor stores what it is given.  One pair   *)
(* also comes with a one-bit sequence field, which two calls exhaust.      *)
OverlappingCoordinates == {<<32, 0>>, <<0, 1>>, <<33, 30>>, <<0, 32>>}

InitOverlapping ==
    \E m \in {DefaultMaxSequenceId, 1},
       c \in OverlappingCoordinates, d \in OverlappingCoordinates :
        /\ Before(c, d)
        /\ m = 1 => (c = <<0, 1>> /\ d = <<32, 0>>)
        /\ InitWith([i \in {1, 2} |->
                        Cyberflake([epoch |-> 0,
                                    maxSequenceId |-> m,
                                    workerId |-> IF i = 1 THEN c[1] ELSE d[1],
                                    datacenterId |-> IF i = 1 THEN c[2] ELSE d[2]])])

\* decode() on instance i of an identifier that i itself returned.
DecodeOwnStep ==
    \E i \in Instances : \E k \in 1..Len(log[i]) : Decode(i, StringValue(log[i][k].id))

NextOverlapping == GenerateStep \/ SpinStep \/ DecodeOwnStep

SpecOverlapping == InitOverlapping /\ [][NextOverlapping]_vars

\* The bits of the workerId above its field.
WorkerOverflow(self) == ShiftRight(self.workerId, DatacenterShift - WorkerShift)

(* C18: No validation of coordinates.  An instance holds the workerId and  *)
(* datacenterId it was constructed with, also above their maxima, and its  *)
(* generate() calls return identifiers and raise no error.  decode() of an *)
(* identifier of an instance with a coordinate above its maximum returns a *)
(* (workerId, datacenterId) pair other than the configured one; with the   *)
(* default maxima, workerId above 31 and datacenterId in range, it returns *)
(* the workerId cut to its field and the datacenterId or-ed with the bits  *)
(* of the workerId above the field.                                        *)
NoValidation ==
    \A i \in Instances :
        /\ (ret.op = "generate" /\ ret.instance = i) =>
              /\ ret.result.ok
              /\ ret.result.value = StringValue(log[i][Len(log[i])].id)
        /\ \A k \in 1..Len(log[i]) :
              (DecodedCall(i, k) /\ ~InRange(flake[i])) =>
                  /\ ret.result.ok
                  /\ <<ret.result.value.workerId, ret.result.value.datacenterId>>
                        # <<flake[i].workerId, flake[i].datacenterId>>
                  /\ (/\ DefaultMaxima(flake[i])
                      /\ flake[i].workerId > flake[i].maxWorkerId
                      /\ flake[i].datacenterId \in 0..flake[i].maxDatacenterId) =>
                        /\ ret.result.value.workerId
                              = BitAnd(flake[i].workerId, flake[i].maxWorkerId)
                        /\ ret.result.value.datacenterId
                              = BitAnd(BitOr(flake[i].datacenterId, WorkerOverflow(flake[i])),
                                       flake[i].maxDatacenterId)

\* The instance with workerId 32 and datacenterId 0 and the instance with
\* workerId 0 and datacenterId 1 have returned the same identifier, and
\* decode() on the first has returned workerId 0 and datacenterId 1 for it.
NoValidationWitness ==
    \E a, b \in Instances :
        /\ DefaultMaxima(flake[a]) /\ DefaultMaxima(flake[b])
        /\ <<flake[a].workerId, flake[a].datacenterId>> = <<32, 0>>
        /\ <<flake[b].workerId, flake[b].datacenterId>> = <<0, 1>>
        /\ \E j \in 1..Len(log[a]), k \in 1..Len(log[b]) :
              /\ log[a][j].id = log[b][k].id
              /\ DecodedCall(a, j)
              /\ ret.result.ok
              /\ <<ret.result.value.workerId, ret.result.value.datacenterId>> = <<0, 1>>

---------------------------------------------------------------------------
\* The timestamp field of a returned identifier: id >> 22n.
EncodedTimestamp(s) == ShiftRight(Numeric(s), TimestampShift)

\* (timestamp, sequenceId) of call j is below that of call k.
LexBelow(i, j, k) ==
    \/ log[i][j].timestamp < log[i][k].timestamp
    \/ /\ log[i][j].timestamp = log[i][k].timestamp
       /\ log[i][j].sequenceId < log[i][k].sequenceId

(* C19: lastTimestamp tracks the emitted timestamp.  After every           *)
(* generate() call, one that went through the spin-wait included, the      *)
(* lastTimestamp the call stored is the timestamp field of the identifier  *)
(* it returned.  While no clock reading was below the one before it,       *)
(* lastTimestamp after a call is at least what the call found, strictly    *)
(* more after a call that wrapped the sequence, and the pair               *)
(* (lastTimestamp, sequenceId) after a call is strictly greater, in        *)
(* lexicographic order, than after the call before it.                     *)
LastTimestampTracks ==
    \A i \in Instances :
        /\ call[i].pc = "idle" => flake[i].lastTimestamp = AfterCalls(i).lastTimestamp
        /\ \A k \in 1..Len(log[i]) :
              /\ log[i][k].timestamp = EncodedTimestamp(log[i][k].id)
              /\ ~regressed =>
                    /\ log[i][k].timestamp >= PreviousTimestamp(i, k)
                    /\ log[i][k].waited => log[i][k].timestamp > PreviousTimestamp(i, k)
                    /\ k > 1 => LexBelow(i, k - 1, k)

=============================================================================
